---- MODULE Spec2Model ----
(***************************************************************************)
(* Model of live_chat.py: the LiveChatBot constructor with its intent      *)
(* resolution (build_intents / get_intent), the DiscordBotManager          *)
(* constructor, and the module-level entry code that reads the program     *)
(* arguments and builds the manager.                                       *)
(*                                                                         *)
(* JSON / Python values are tagged records so that values of different     *)
(* Python types can be compared: None is [t |-> "null"], a string is       *)
(* [t |-> "str", v |-> s], a dict is [t |-> "obj", v |-> f] with f a       *)
(* function whose DOMAIN is the set of keys present, a list is             *)
(* [t |-> "arr", v |-> seq].                                               *)
(***************************************************************************)
EXTENDS FiniteSets, Integers, Sequences, TLC

VARIABLES
    argv,                   \* sys.argv[1:]
    files,                  \* per directory: state of <directory>/configuration.json
    pc,                     \* position of the entry code / manager constructor
    configuration_path,     \* DISCORD_CONFIGURATION_PATH, <<directory, file name>>
    json_data,              \* json.load(file)
    listen_address,         \* self.listen_address
    listen_port,            \* self.listen_port
    bots_data,              \* json_data.get("bots", [])
    bots,                   \* self.bots of the manager under construction
    error,                  \* the exception that ended the program, if any
    DISCORD_BOT_MANAGER,    \* the module-level name bound at line 243
    configuration,          \* argument of build_intents
    intents,                \* local `intents` of build_intents: flag -> value assigned
    ipc,                    \* position inside build_intents
    returned                \* value build_intents returned

vars == << argv, files, pc, configuration_path, json_data, listen_address,
           listen_port, bots_data, bots, error, DISCORD_BOT_MANAGER,
           configuration, intents, ipc, returned >>

progVars == << argv, files, pc, configuration_path, json_data, listen_address,
               listen_port, bots_data, bots, error, DISCORD_BOT_MANAGER >>

intentVars == << configuration, intents, ipc, returned >>

---------------------------------------------------------------------------
(* Bounds *)

MaxBots == 3

MaxOverrides == 2

---------------------------------------------------------------------------
(* Python / JSON values *)

JNull == [t |-> "null"]

JStr(s) == [t |-> "str", v |-> s]

JNum(n) == [t |-> "num", v |-> n]

JObj(f) == [t |-> "obj", v |-> f]

JArr(s) == [t |-> "arr", v |-> s]

\* dict.get(key, default)
DictGet(d, key, default) == IF key \in DOMAIN d.v THEN d.v[key] ELSE default

\* Sequences over S of length at most n
SeqUpTo(S, n) == UNION { [1..m -> S] : m \in 0..n }

RECURSIVE SubsetsUpTo(_, _)
SubsetsUpTo(S, n) ==
    IF n = 0 THEN { {} }
    ELSE LET P == SubsetsUpTo(S, n - 1)
         IN  P \cup { T \cup {x} : T \in P, x \in S }

---------------------------------------------------------------------------
(* LiveChatBot *)

DEFAULT_INTENTS ==
    [ auto_moderation               |-> FALSE,
      auto_moderation_configuration |-> FALSE,
      auto_moderation_execution     |-> FALSE,
      bans                          |-> FALSE,
      dm_messages                   |-> FALSE,
      dm_reactions                  |-> FALSE,
      dm_typing                     |-> FALSE,
      emojis_and_stickers           |-> FALSE,
      guild_messages                |-> TRUE,
      guild_reactions               |-> FALSE,
      guild_scheduled_events        |-> FALSE,
      guild_typing                  |-> FALSE,
      guilds                        |-> TRUE,
      integrations                  |-> FALSE,
      invites                       |-> FALSE,
      members                       |-> TRUE,
      message_content               |-> TRUE,
      presences                     |-> FALSE,
      voice_states                  |-> FALSE,
      webhooks                      |-> TRUE ]

\* The attributes build_intents assigns, in the order of its statements.
IntentOrder ==
    << "auto_moderation", "auto_moderation_configuration",
       "auto_moderation_execution", "bans", "dm_messages", "dm_reactions",
       "dm_typing", "emojis_and_stickers", "guild_messages",
       "guild_reactions", "guild_scheduled_events", "guild_typing", "guilds",
       "integrations", "invites", "members", "message_content", "presences",
       "voice_states", "webhooks" >>

\* get_intent written with `or` instead of dict.get: a configured false
\* cannot turn off a flag that is true by default.
get_intent_or(conf, intent_name) ==
    DictGet(conf, intent_name, FALSE) \/ DEFAULT_INTENTS[intent_name]

\* get_intent(configuration, intent_name); conf is a dict (not None).
get_intent(conf, intent_name) ==
    DictGet(conf, intent_name, DEFAULT_INTENTS[intent_name])

\* The local discord.Intents object of build_intents after all assignments.
AssignedIntents(conf) ==
    [ n \in { IntentOrder[i] : i \in DOMAIN IntentOrder } |-> get_intent(conf, n) ]

\* build_intents(configuration): raises on None; otherwise fills the local
\* object and falls off the end of the function, so the call evaluates to None.
build_intents(conf) ==
    IF conf = JNull
    THEN [ok |-> FALSE, error |-> "ValueError", message |-> "configuration is null."]
    ELSE [ok |-> TRUE, value |-> JNull]

\* The test on the auth token with the empty-string case forgotten.
auth_rejected_none_only(auth) == auth = JNull

\* `auth == None or auth == ""`
auth_rejected(auth) == auth = JNull \/ auth = JStr("")

\* self.name with the display-name default used by mistake.
bot_name_wrong_default(conf) == DictGet(conf, "name", JStr("Live Chat"))

\* self.name
bot_name(conf) == DictGet(conf, "name", JStr("live_chat"))

\* self.display_name
bot_display_name(conf) == DictGet(conf, "display_name", JStr("Live Chat"))

\* LiveChatBot(configuration): the outcome of the constructor. The client is
\* only constructed: nothing in the program calls run(), start() or connect(),
\* so the gateway connection of a constructed bot stays closed.
LiveChatBot(conf) ==
    IF conf = JNull
    THEN [ok |-> FALSE, error |-> "ValueError", message |-> "configuration is null."]
    ELSE IF auth_rejected(DictGet(conf, "auth", JStr("")))
    THEN [ok |-> FALSE, error |-> "ValueError",
          message |-> "No API authentication token was provided in the bot configuration."]
    ELSE LET built == build_intents(DictGet(conf, "intents", JObj(DEFAULT_INTENTS)))
         IN  IF ~built.ok
             THEN built
             ELSE [ok |-> TRUE,
                   bot |-> [ name         |-> bot_name(conf),
                             display_name |-> bot_display_name(conf),
                             intents      |-> built.value,
                             connection   |-> "Disconnected" ]]

---------------------------------------------------------------------------
(* Inputs of the program *)

CwdDir == "/srv/live_chat"          \* os.path.realpath(".")

ArgDir == "/etc/live_chat"          \* a directory given as first argument

Dirs == { CwdDir, ArgDir }

ConfigFileName == "configuration.json"

DefaultPort == 8080

\* Bot entries a bots array may hold.
BotEntries ==
    { JNull,
      JObj(<<>>),
      JObj([auth |-> JNull]),
      JObj([auth |-> JStr("")]),
      JObj([auth |-> JStr("token-a")]),
      JObj([auth |-> JStr("token-b"), name |-> JStr("bridge")]),
      JObj([auth |-> JStr("token-c"), name |-> JStr("relay"),
            display_name |-> JStr("Relay"),
            intents |-> JObj([guilds |-> FALSE, emojis |-> TRUE])]),
      JObj([auth |-> JStr("token-d"), display_name |-> JStr("Bridge"),
            intents |-> JNull]) }

\* The top-level settings a configuration document may carry besides bots.
TopLevels ==
    { <<>>, [address |-> JStr("127.0.0.1"), port |-> JNum(9000)] }

\* The documents a well-formed configuration.json may hold.
Documents ==
    { JObj(top) : top \in TopLevels }
    \cup { JObj(top @@ [bots |-> JNull]) : top \in TopLevels }
    \cup { JObj(top @@ [bots |-> JArr(s)]) :
             top \in TopLevels, s \in SeqUpTo(BotEntries, MaxBots) }

BrokenFiles ==
    { [kind |-> "missing"], [kind |-> "unreadable"], [kind |-> "malformed"] }

FileStates == BrokenFiles \cup { [kind |-> "ok", json |-> d] : d \in Documents }

\* What the directory the program does not care about may hold.
OtherFileStates ==
    { [kind |-> "missing"], [kind |-> "ok", json |-> JObj(<<>>)] }

Unbound == [t |-> "unbound"]

NoError == [type |-> "none"]

---------------------------------------------------------------------------
(* Module entry and DiscordBotManager.__init__ *)

Init ==
    /\ argv \in { <<>>, << ArgDir >> }
    /\ \E d \in Dirs, f \in FileStates, g \in OtherFileStates :
           files = (d :> f) @@ [ o \in Dirs |-> g ]
    /\ pc = "arguments"
    /\ configuration_path = << >>
    /\ json_data = JNull
    /\ listen_address = JNull
    /\ listen_port = JNull
    /\ bots_data = JNull
    /\ bots = << >>
    /\ error = NoError
    /\ DISCORD_BOT_MANAGER = Unbound
    /\ configuration = JNull
    /\ intents = << >>
    /\ ipc = "idle"
    /\ returned = Unbound

\* The directory the entry code ignores its argument for.
configuration_directory_path_cwd(arguments) == CwdDir

\* configuration_directory_path: the first argument, else the working directory.
configuration_directory_path(arguments) ==
    IF Len(arguments) >= 1 THEN arguments[1] ELSE CwdDir

\* The exception propagates out of the module: nothing is bound.
Raise(type, message, at) ==
    /\ pc' = "crashed"
    /\ error' = [type |-> type, message |-> message, at |-> at]

\* lines 233-242
ReadArguments ==
    /\ pc = "arguments"
    /\ configuration_path' = << configuration_directory_path(argv), ConfigFileName >>
    /\ pc' = "validate"
    /\ UNCHANGED << argv, files, json_data, listen_address, listen_port,
                    bots_data, bots, error, DISCORD_BOT_MANAGER, intentVars >>

\* The file at the path, as the operating system sees it.
FileAt(path) == files[path[1]]

\* lines 209-214: isfile and access
ValidatePath ==
    /\ pc = "validate"
    /\ IF FileAt(configuration_path).kind = "missing"
       THEN Raise("IOError", "configuration_path is not a file.", 0)
       ELSE IF FileAt(configuration_path).kind = "unreadable"
       THEN Raise("IOError", "configuration_path is not readable.", 0)
       ELSE pc' = "read" /\ UNCHANGED error
    /\ UNCHANGED << argv, files, configuration_path, json_data, listen_address,
                    listen_port, bots_data, bots, DISCORD_BOT_MANAGER, intentVars >>

\* lines 216-218: json.load
ReadJson ==
    /\ pc = "read"
    /\ IF FileAt(configuration_path).kind = "malformed"
       THEN /\ Raise("JSONDecodeError", "malformed document", 0)
            /\ UNCHANGED json_data
       ELSE /\ json_data' = FileAt(configuration_path).json
            /\ pc' = "settings"
            /\ UNCHANGED error
    /\ UNCHANGED << argv, files, configuration_path, listen_address, listen_port,
                    bots_data, bots, DISCORD_BOT_MANAGER, intentVars >>

\* `bots_data != None and len(bots_data) > 0`
HasBots(data) == data # JNull /\ Len(data.v) > 0

\* lines 220-226
ReadSettings ==
    /\ pc = "settings"
    /\ listen_address' = DictGet(json_data, "address", JStr("0.0.0.0"))
    /\ listen_port' = DictGet(json_data, "port", JNum(DefaultPort))
    /\ bots_data' = DictGet(json_data, "bots", JArr(<< >>))
    /\ bots' = << >>
    /\ pc' = IF HasBots(bots_data') THEN "loop" ELSE "report"
    /\ UNCHANGED << argv, files, configuration_path, json_data, error,
                    DISCORD_BOT_MANAGER, intentVars >>

\* self.bots with the new bot put in front.
AppendedBots_front(list, bot) == << bot >> \o list

\* self.bots.append(bot)
AppendedBots(list, bot) == Append(list, bot)

\* lines 227-228: one iteration of the loop over bots_data. The entry taken is
\* the one after those already appended.
ConstructBot ==
    /\ pc = "loop"
    /\ LET k == Len(bots) + 1
           made == LiveChatBot(bots_data.v[k])
       IN  IF made.ok
           THEN /\ bots' = AppendedBots(bots, made.bot)
                /\ pc' = IF k = Len(bots_data.v) THEN "report" ELSE "loop"
                /\ UNCHANGED error
           ELSE /\ Raise(made.error, made.message, k)
                /\ UNCHANGED bots
    /\ UNCHANGED << argv, files, configuration_path, json_data, listen_address,
                    listen_port, bots_data, DISCORD_BOT_MANAGER, intentVars >>

\* line 230, return of the constructor, line 243
BindManager ==
    /\ pc = "report"
    /\ DISCORD_BOT_MANAGER' = [ t |-> "manager",
                                listen_address |-> listen_address,
                                listen_port |-> listen_port,
                                bots |-> bots ]
    /\ pc' = "done"
    /\ UNCHANGED << argv, files, configuration_path, json_data, listen_address,
                    listen_port, bots_data, bots, error, intentVars >>

Next ==
    \/ ReadArguments
    \/ ValidatePath
    \/ ReadJson
    \/ ReadSettings
    \/ ConstructBot
    \/ BindManager

Spec == Init /\ [][Next]_vars

---------------------------------------------------------------------------
(* build_intents, statement by statement *)

\* Names a configuration may use for an intent: the flags of DEFAULT_INTENTS
\* and the two aliases the table leaves commented out.
OverrideNames == DOMAIN DEFAULT_INTENTS \cup { "emojis", "messages" }

OverrideMaps ==
    UNION { [S -> BOOLEAN] : S \in SubsetsUpTo(OverrideNames, MaxOverrides) }

InitIntents ==
    /\ argv = << >>
    /\ files = [ d \in Dirs |-> [kind |-> "missing"] ]
    /\ pc = "idle"
    /\ configuration_path = << >>
    /\ json_data = JNull
    /\ listen_address = JNull
    /\ listen_port = JNull
    /\ bots_data = JNull
    /\ bots = << >>
    /\ error = NoError
    /\ DISCORD_BOT_MANAGER = Unbound
    /\ configuration \in { JNull } \cup { JObj(m) : m \in OverrideMaps }
    /\ intents = << >>
    /\ ipc = "enter"
    /\ returned = Unbound

\* lines 152-154
EnterBuildIntents ==
    /\ ipc = "enter"
    /\ ipc' = IF build_intents(configuration).ok THEN "assign" ELSE "raised"
    /\ intents' = << >>
    /\ UNCHANGED << configuration, returned, progVars >>

\* lines 155-174: the next assignment `intents.<name> = self.get_intent(...)`
AssignIntent ==
    /\ ipc = "assign"
    /\ LET name == IntentOrder[Cardinality(DOMAIN intents) + 1]
       IN  /\ intents' = (name :> get_intent(configuration, name)) @@ intents
           /\ ipc' = IF Cardinality(DOMAIN intents') = Len(IntentOrder)
                     THEN "end" ELSE "assign"
    /\ UNCHANGED << configuration, returned, progVars >>

\* line 174 is the last statement: the function returns without a value
ReturnIntents ==
    /\ ipc = "end"
    /\ returned' = build_intents(configuration).value
    /\ ipc' = "returned"
    /\ UNCHANGED << configuration, intents, progVars >>

NextIntents ==
    \/ EnterBuildIntents
    \/ AssignIntent
    \/ ReturnIntents

SpecIntents == InitIntents /\ [][NextIntents]_vars

---------------------------------------------------------------------------
(* Vocabulary of the properties *)

\* The bots array the manager was given; empty when absent or null.
Entries == IF bots_data = JNull THEN << >> ELSE bots_data.v

HasKey(e, key) == e # JNull /\ key \in DOMAIN e.v

\* The entry is null, or its auth is absent, null or the empty string.
MissingAuth(e) ==
    \/ e = JNull
    \/ ~HasKey(e, "auth")
    \/ e.v["auth"] = JNull
    \/ e.v["auth"] = JStr("")

NullIntents(e) == HasKey(e, "intents") /\ e.v["intents"] = JNull

\* The flags with a documented default of true.
TrueByDefault ==
    { "guild_messages", "guilds", "members", "message_content", "webhooks" }

ExpectedName(e) == IF HasKey(e, "name") THEN e.v["name"] ELSE JStr("live_chat")

ExpectedDisplayName(e) ==
    IF HasKey(e, "display_name") THEN e.v["display_name"] ELSE JStr("Live Chat")

\* The directory whose configuration.json the program is to read.
ConfiguredDir == IF argv = << >> THEN CwdDir ELSE argv[1]

---------------------------------------------------------------------------
(* Properties *)

\* C1: an entry that is null or whose auth is absent, null or empty is never
\* turned into a bot: no bot of the list comes from it, no manager is bound,
\* and once the loop has dealt with the entries before it the program has
\* ended with a ValueError raised at that entry.
C1_MissingAuthRejected ==
    \A i \in 1..Len(Entries) :
        MissingAuth(Entries[i]) =>
            /\ Len(bots) < i
            /\ DISCORD_BOT_MANAGER = Unbound
            /\ (Len(bots) = i - 1 /\ pc # "loop") =>
                   (pc = "crashed" /\ error.type = "ValueError" /\ error.at = i)

\* C1 witness: the second entry has an empty auth and its construction raised,
\* after the first entry had been constructed.
C1_Witness ==
    /\ pc = "crashed"
    /\ error.at = 2
    /\ HasKey(Entries[2], "auth")
    /\ Entries[2].v["auth"] = JStr("")
    /\ Len(bots) = 1

\* C2: every flag build_intents has assigned is a flag of DEFAULT_INTENTS and
\* holds the configured value when the mapping names it and the documented
\* default otherwise; when the assignments are over, the flags assigned are
\* exactly those of DEFAULT_INTENTS, whatever other names the mapping holds.
C2_IntentsResolved ==
    /\ \A n \in DOMAIN intents :
           /\ n \in DOMAIN DEFAULT_INTENTS
           /\ intents[n] = IF n \in DOMAIN configuration.v
                           THEN configuration.v[n]
                           ELSE n \in TrueByDefault
    /\ ipc \in { "end", "returned" } => DOMAIN intents = DOMAIN DEFAULT_INTENTS

\* C2 witness: the mapping turns guilds off and names the unrecognized flag
\* emojis; build_intents has finished.
C2_Witness ==
    /\ ipc = "returned"
    /\ DOMAIN configuration.v = { "guilds", "emojis" }
    /\ configuration.v["guilds"] = FALSE
    /\ intents["guilds"] = FALSE
    /\ intents["webhooks"] = TRUE

\* C3: the intents handed to the gateway client of every constructed bot are
\* the flags resolved from that bot's configuration.
C3_IntentsAttached ==
    \A i \in 1..Len(bots) :
        bots[i].intents =
            [ t |-> "intents",
              flags |-> AssignedIntents(
                  DictGet(Entries[i], "intents", JObj(DEFAULT_INTENTS))) ]

\* C4: when the load fails on a bot entry, the error names every invalid
\* entry of the bots array.
C4_AggregateError ==
    (pc = "crashed" /\ error.at > 0) =>
        { error.at } = { i \in 1..Len(Entries) : ~LiveChatBot(Entries[i]).ok }

\* C5: the bots of a bound manager have pairwise distinct names.
C5_UniqueNames ==
    DISCORD_BOT_MANAGER # Unbound =>
        \A i, j \in 1..Len(DISCORD_BOT_MANAGER.bots) :
            i # j => DISCORD_BOT_MANAGER.bots[i].name # DISCORD_BOT_MANAGER.bots[j].name

\* C6: when configuration.json of the configured directory (first argument,
\* else the working directory) is missing, unreadable or malformed, the
\* program never gets past reading it: no manager is bound, no bot is made,
\* and where it has ended it ended with an error.
C6_BadFileFailsStartup ==
    files[ConfiguredDir].kind # "ok" =>
        /\ DISCORD_BOT_MANAGER = Unbound
        /\ bots = << >>
        /\ pc \in { "arguments", "validate", "read", "crashed" }
        /\ pc = "read" => files[ConfiguredDir].kind = "malformed"
        /\ pc = "crashed" => error.type \in { "IOError", "JSONDecodeError" }

\* C6 witness: the directory given as argument holds an unreadable file while
\* the working directory holds a good one, and the program has ended in error.
C6_Witness ==
    /\ pc = "crashed"
    /\ argv = << ArgDir >>
    /\ files[ArgDir].kind = "unreadable"
    /\ files[CwdDir].kind = "ok"

\* The names a constructed bot carries are the configured ones, or the defaults.
NamesAsConfigured(i) ==
    i <= Len(bots) =>
        /\ bots[i].name = ExpectedName(Entries[i])
        /\ bots[i].display_name = ExpectedDisplayName(Entries[i])

\* C7 as stated: every entry with a non-empty auth is constructed without
\* error, and carries its configured names or the defaults.
C7_NonEmptyAuthConstructs ==
    \A i \in 1..Len(Entries) :
        ~MissingAuth(Entries[i]) =>
            /\ ~(pc = "crashed" /\ error.at = i)
            /\ NamesAsConfigured(i)

\* C7 amended: every entry with a non-empty auth whose intents field is not
\* null is constructed without error, with or without name and display_name,
\* and carries its configured names or the defaults.
C7_NamesDefaulted ==
    \A i \in 1..Len(Entries) :
        (~MissingAuth(Entries[i]) /\ ~NullIntents(Entries[i])) =>
            /\ ~(pc = "crashed" /\ error.at = i)
            /\ NamesAsConfigured(i)

\* C7 witness: a manager is bound whose first bot comes from an entry with
\* neither name nor display_name and carries both defaults.
C7_Witness ==
    /\ pc = "done"
    /\ Len(bots) >= 1
    /\ ~HasKey(Entries[1], "name")
    /\ ~HasKey(Entries[1], "display_name")
    /\ bots[1].name = JStr("live_chat")
    /\ bots[1].display_name = JStr("Live Chat")

\* C8: when the program has come to its end with a manager bound, every bot
\* of the manager has left the Disconnected state.
C8_SessionsConnect ==
    pc = "done" =>
        \A i \in 1..Len(DISCORD_BOT_MANAGER.bots) :
            DISCORD_BOT_MANAGER.bots[i].connection # "Disconnected"

\* C10: a bound manager holds one bot per entry of the bots array, in array
\* order; a bots field that is absent, null or empty never fails the load and
\* gives a manager without bots; a failure at entry k leaves no manager bound,
\* the k - 1 entries before it having been constructed.
C10_OneBotPerEntry ==
    /\ DISCORD_BOT_MANAGER # Unbound =>
           /\ Len(DISCORD_BOT_MANAGER.bots) = Len(Entries)
           /\ \A i \in 1..Len(Entries) :
                  /\ DISCORD_BOT_MANAGER.bots[i].name = ExpectedName(Entries[i])
                  /\ DISCORD_BOT_MANAGER.bots[i].display_name
                         = ExpectedDisplayName(Entries[i])
    /\ (json_data # JNull /\ ~HasBots(DictGet(json_data, "bots", JArr(<< >>)))) =>
           /\ pc \in { "settings", "report", "done" }
           /\ pc = "done" => DISCORD_BOT_MANAGER.bots = << >>
    /\ (pc = "crashed" /\ error.at > 0) =>
           /\ DISCORD_BOT_MANAGER = Unbound
           /\ Len(bots) = error.at - 1

\* C10 witness: a manager is bound with two bots of different names, in the
\* order of their entries.
C10_Witness ==
    /\ DISCORD_BOT_MANAGER # Unbound
    /\ Len(DISCORD_BOT_MANAGER.bots) = 2
    /\ DISCORD_BOT_MANAGER.bots[1].name = JStr("bridge")
    /\ DISCORD_BOT_MANAGER.bots[2].name = JStr("live_chat")

====
